---- MODULE Spec2Model ----
(***************************************************************************)
(* A model of the cloud client library (cloud.go): Dial, the WebDAV        *)
(* operations (Mkdir, Delete, Upload, UploadDir, Download, Exists), the    *)
(* Apps/OCS operations, and the server they talk to.                       *)
(*                                                                         *)
(* Byte strings are sequences of lexical tokens: a run of content bytes    *)
(* that holds no '<' ("text"), a start tag and an end tag.  A body's first *)
(* byte is '<' exactly when its first token is a tag.  The bytes of a text  *)
(* run are codes: 0..9 are the decimal digits, a code of 10 or more is any *)
(* other byte.  Path and URL                                               *)
(* strings are sequences of '/'-separated segments; the segment "" is an   *)
(* empty segment (a doubled or trailing slash) and the segment "%" is one  *)
(* with an invalid percent escape.                                         *)
(***************************************************************************)
EXTENDS Integers, Sequences, FiniteSets, TLC

VARIABLES client, dialErr, store, shares, seen, last, calls

vars == <<client, dialErr, store, shares, seen, last, calls>>

----------------------------------------------------------------------------
(* Tokens and bodies *)

S(n) == [k |-> "start", n |-> n, c |-> <<>>]
E(n) == [k |-> "end", n |-> n, c |-> <<>>]
T(c) == [k |-> "text", n |-> "", c |-> c]

\* The payloads a caller uploads: empty, plain text, a body that begins with
\* '<' and is not well-formed, well-formed XML without an exception element,
\* and well-formed XML with a non-empty one.
X == <<10>>
Hello == <<T(X)>>
BrokenXml == <<S("html")>>
PlainXml == <<S("note"), T(X), E("note")>>
ExceptionXml == <<S("error"), S("exception"), T(X), E("exception"), E("error")>>
Payloads == { <<>>, Hello, BrokenXml, PlainXml, ExceptionXml }

\* Results are pairs of a value and an error, both records of one shape.
NilErr == [kind |-> "nil", code |-> 0, exception |-> <<>>, message |-> <<>>]
Err(kind) == [kind |-> kind, code |-> 0, exception |-> <<>>, message |-> <<>>]
NilBytes == [nil |-> TRUE, bytes |-> <<>>]
Bytes(b) == [nil |-> FALSE, bytes |-> b]

----------------------------------------------------------------------------
(* encoding/xml: Unmarshal into a struct whose fields are named by element *)
(* paths below the root element.                                           *)

Top(stack) == stack[Len(stack)]
Pop(stack) == SubSeq(stack, 1, Len(stack) - 1)

AllDigits(cs) == \A i \in 1..Len(cs) : cs[i] < 10

\* strconv.ParseUint in base 10; the empty string is stored as 0 without
\* being parsed.
RECURSIVE ParseUint(_)
ParseUint(cs) == IF cs = <<>> THEN 0 ELSE 10 * ParseUint(Pop(cs)) + Top(cs)

\* The decoder reads tokens from position i with the open elements on the
\* stack (the root first).  A field is set, at the end tag of an element
\* whose path below the root is the field's path, from the character data
\* directly inside it; a field of type uint (uints) whose data is not a
\* number is an error.  An end tag that does not close the open element, or
\* the end of the input before the root is closed, is an error; what follows
\* the root's end tag is not read.
RECURSIVE Decode(_, _, _, _, _, _)
Decode(body, i, stack, fields, uints, acc) ==
    IF i > Len(body) THEN [err |-> TRUE, val |-> acc]
    ELSE LET t == body[i] IN
      CASE t.k = "text" ->
             Decode(body, i + 1, stack, fields, uints,
                    IF stack # <<>> /\ Tail(stack) \in fields
                    THEN [acc EXCEPT ![Tail(stack)] = @ \o t.c]
                    ELSE acc)
        [] t.k = "start" ->
             Decode(body, i + 1, Append(stack, t.n), fields, uints,
                    IF stack # <<>> /\ Append(Tail(stack), t.n) \in fields
                    THEN [acc EXCEPT ![Append(Tail(stack), t.n)] = <<>>]
                    ELSE acc)
        [] OTHER ->
             IF stack = <<>> \/ Top(stack) # t.n THEN [err |-> TRUE, val |-> acc]
             ELSE IF Tail(stack) \in uints /\ ~AllDigits(acc[Tail(stack)])
             THEN [err |-> TRUE, val |-> acc]
             ELSE IF Len(stack) = 1 THEN [err |-> FALSE, val |-> acc]
             ELSE Decode(body, i + 1, Pop(stack), fields, uints, acc)

\* xml.Unmarshal into a struct with these fields; root is the element name a
\* field XMLName asks for, "" when the struct has none.
Unmarshal(body, root, fields, uints) ==
    LET IsStart(t) == t.k = "start"
        starts == SelectSeq(body, IsStart)
    IN IF root # "" /\ starts # <<>> /\ starts[1].n # root
       THEN [err |-> TRUE, val |-> [f \in fields |-> <<>>]]
       ELSE Decode(body, 1, <<>>, fields, uints, [f \in fields |-> <<>>])

\* type Error: Exception `xml:"exception"`, Message `xml:"message"`.
ErrorFields == { <<"exception">>, <<"message">> }

\* type ShareResult: XMLName `xml:"ocs"`, Status `xml:"meta>status"`,
\* StatusCode uint `xml:"meta>statuscode"`, Message `xml:"meta>message"`,
\* Id uint `xml:"data>id"`.
ShareFields ==
    { <<"meta", "status">>, <<"meta", "statuscode">>, <<"meta", "message">>,
      <<"data", "id">> }
ShareUints == { <<"meta", "statuscode">>, <<"data", "id">> }

----------------------------------------------------------------------------
(* Paths and URLs *)

\* url.Parse fails on an invalid percent escape.
UrlParseAny(segs) == TRUE

UrlParseOk(segs) == \A i \in 1..Len(segs) : segs[i] # "%"

\* filepath.Join cleans its result: empty elements are dropped.
NotEmptySeg(s) == s # ""
Join(a, b) == SelectSeq(a \o b, NotEmptySeg)

\* (*url.URL).ResolveReference of a relative path: the base's directory
\* followed by the reference.
ResolveReference(base, ref) == [host |-> base.host, path |-> base.dir \o ref]

WebdavPrefix == <<"remote.php", "webdav">>
AppsPrefix == <<"apps">>

----------------------------------------------------------------------------
(* The server: a WebDAV tree of collections and files *)

Absent == [kind |-> "absent", data |-> <<>>]
Dir == [kind |-> "dir", data |-> <<>>]
File(b) == [kind |-> "file", data |-> b]

\* The paths, relative to the WebDAV root, that callers name.
Paths == { <<"a">>, <<"a", "">>, <<"a", "b">>, <<"%">> }

\* The resources the server can hold below its root.
Keys == { <<"a">>, <<"a", "b">>, <<"a", "c">>, <<"b">> }

Lookup(st, key) ==
    IF key = <<>> THEN Dir ELSE IF key \in DOMAIN st THEN st[key] ELSE Absent

IsPrefix(p, s) == Len(p) <= Len(s) /\ SubSeq(s, 1, Len(p)) = p

\* The body of a server-reported failure:
\* <d:error><s:exception>..</s:exception><s:message>..</s:message></d:error>
ErrorBody(kind, msg) ==
    << S("error"), S("exception"), T(<<kind>>), E("exception"),
       S("message"), T(<<msg>>), E("message"), E("error") >>

Multistatus ==
    << S("multistatus"), S("response"), T(X), E("response"), E("multistatus") >>

Reply(st, status, body) == [store |-> st, resp |-> [status |-> status, body |-> body]]
\* The exception's name is written as one byte code, the status it goes with.
Fault(st, status) == Reply(st, status, ErrorBody(status, 10))

\* How the request is carried: the server answers it ("ok"), the server
\* refuses it with an error body ("refuse"), the connection fails before the
\* server sees it ("down"), or the server handles it and the connection fails
\* while the body is read ("cut").
Nets == { "ok", "refuse", "down", "cut" }

\* The server's handling of one WebDAV request.
ServeWebDav(st, req) ==
    IF ~IsPrefix(WebdavPrefix, req.url.path) \/ req.user # "admin"
    THEN Fault(st, 404)
    ELSE
      LET key == SubSeq(req.url.path, Len(WebdavPrefix) + 1, Len(req.url.path))
          cur == Lookup(st, key)
          parentIsDir == key # <<>> /\ Lookup(st, Pop(key)).kind = "dir"
      IN CASE req.method = "MKCOL" ->
                IF cur.kind # "absent" THEN Fault(st, 405)
                ELSE IF ~parentIsDir \/ key \notin DOMAIN st THEN Fault(st, 409)
                ELSE Reply([st EXCEPT ![key] = Dir], 201, <<>>)
           [] req.method = "DELETE" ->
                IF cur.kind = "absent" THEN Fault(st, 404)
                ELSE IF key = <<>> THEN Fault(st, 403)
                ELSE Reply([k \in DOMAIN st |-> IF IsPrefix(key, k) THEN Absent ELSE st[k]],
                           204, <<>>)
           [] req.method = "PUT" ->
                IF cur.kind = "dir" \/ ~parentIsDir \/ key \notin DOMAIN st
                THEN Fault(st, 409)
                ELSE Reply([st EXCEPT ![key] = File(req.body)],
                           IF cur.kind = "absent" THEN 201 ELSE 204, <<>>)
           [] req.method = "GET" ->
                IF cur.kind = "file" THEN Reply(st, 200, cur.data)
                ELSE IF cur.kind = "dir" THEN Fault(st, 501)
                ELSE Fault(st, 404)
           [] OTHER ->
                IF cur.kind = "absent" THEN Fault(st, 404)
                ELSE Reply(st, 207, Multistatus)

----------------------------------------------------------------------------
(* The client *)

NoClient ==
    [nil |-> TRUE, Url |-> [host |-> "", dir |-> <<>>], Username |-> "", Password |-> ""]

\* The addresses given to Dial: the scheme and authority, then the path.
Hosts == { <<"http://localhost:18080", "">>, <<"http://localhost:18080", "%">> }

\* url.Parse of an address: the directory of its path is what a relative
\* reference is resolved against.
ParseHost(host) == [host |-> Head(host), dir |-> Pop(Tail(host))]

NoResp == [status |-> 0, body |-> <<>>]

\* The classification of a response body that was read in full.
ClassifyBody(body) ==
    IF Len(body) > 0 /\ body[1].k # "text" THEN
        LET error == Unmarshal(body, "", ErrorFields, {}) IN
        IF error.err THEN [val |-> Bytes(body), err |-> Err("xml")]
        ELSE IF error.val[<<"exception">>] # <<>> THEN [val |-> NilBytes, err |-> NilErr]
        ELSE [val |-> Bytes(body), err |-> NilErr]
    ELSE [val |-> Bytes(body), err |-> NilErr]

\* The receiver after a request was built from it: ResolveReference and
\* SetBasicAuth read its fields and write none.
ClientAfterRequestMovesUrl(c, ref) ==
    [c EXCEPT !.Url = [host |-> c.Url.host, dir |-> c.Url.dir \o ref]]

ClientAfterRequest(c, ref) == c

\* client.Do and ioutil.ReadAll: the server's store afterwards, the HTTP
\* exchanges made, whether the body was read in full, and the body.
DoRetry(st, req, net) ==
    LET sv == IF net = "refuse" THEN Fault(st, 503) ELSE ServeWebDav(st, req) IN
    IF net = "down"
    THEN [store |-> st,
          log |-> <<[req |-> req, resp |-> NoResp], [req |-> req, resp |-> NoResp]>>,
          ok |-> FALSE, body |-> <<>>]
    ELSE [store |-> sv.store, log |-> <<[req |-> req, resp |-> sv.resp]>>,
          ok |-> net # "cut", body |-> sv.resp.body]

Do(st, req, net) ==
    LET sv == IF net = "refuse" THEN Fault(st, 503) ELSE ServeWebDav(st, req) IN
    IF net = "down"
    THEN [store |-> st, log |-> <<[req |-> req, resp |-> NoResp]>>,
          ok |-> FALSE, body |-> <<>>]
    ELSE [store |-> sv.store, log |-> <<[req |-> req, resp |-> sv.resp]>>,
          ok |-> net # "cut", body |-> sv.resp.body]

\* The request sendWebDavRequest builds.
WebDavRequest(c, request, webdavPath, data) ==
    [method |-> request, url |-> ResolveReference(c.Url, webdavPath),
     user |-> c.Username, pass |-> c.Password, headers |-> {}, body |-> data]

\* sendWebDavRequest: the server's store afterwards, the HTTP exchanges made
\* and the result returned.  (http.NewRequest cannot fail here: the method
\* is one of five valid ones and the URL was parsed.)
sendWebDavRequest(c, st, request, path, data, net) ==
    LET webdavPath == Join(WebdavPrefix, path) IN
    IF ~UrlParseOk(webdavPath)
    THEN [store |-> st, log |-> <<>>, ret |-> [val |-> NilBytes, err |-> Err("url")]]
    ELSE
      LET d == Do(st, WebDavRequest(c, request, webdavPath, data), net) IN
      [store |-> d.store, log |-> d.log,
       ret |-> IF d.ok THEN ClassifyBody(d.body)
               ELSE [val |-> NilBytes, err |-> Err("transport")]]

Call(op, path, data, net, r, ret) ==
    [op |-> op, path |-> path, data |-> data, net |-> net, log |-> r.log, ret |-> ret]

NewClient(host, username, password) ==
    [nil |-> FALSE, Url |-> ParseHost(host), Username |-> username, Password |-> password]

Dial(host) ==
    /\ client.nil
    /\ IF UrlParseOk(host)
       THEN /\ client' = NewClient(host, "admin", "password")
            /\ dialErr' = NilErr
       ELSE /\ client' = NoClient
            /\ dialErr' = Err("url")
    /\ last' = [op |-> "Dial", path |-> host, data |-> <<>>, net |-> "", log |-> <<>>,
                ret |-> [val |-> NilBytes, err |-> dialErr']]
    /\ UNCHANGED <<store, shares, seen, calls>>

Mkdir(path, net) ==
    /\ ~client.nil
    /\ LET r == sendWebDavRequest(client, store, "MKCOL", path, <<>>, net) IN
       /\ store' = r.store
       /\ last' = Call("Mkdir", path, <<>>, net, r, [val |-> NilBytes, err |-> r.ret.err])
       /\ client' = ClientAfterRequest(client, path)
    /\ UNCHANGED <<dialErr, shares, seen, calls>>

Delete(path, net) ==
    /\ ~client.nil
    /\ LET r == sendWebDavRequest(client, store, "DELETE", path, <<>>, net) IN
       /\ store' = r.store
       /\ last' = Call("Delete", path, <<>>, net, r, [val |-> NilBytes, err |-> r.ret.err])
       /\ client' = ClientAfterRequest(client, path)
    /\ UNCHANGED <<dialErr, shares, seen, calls>>

Upload(src, dest, net) ==
    /\ ~client.nil
    /\ LET r == sendWebDavRequest(client, store, "PUT", dest, src, net) IN
       /\ store' = r.store
       /\ last' = Call("Upload", dest, src, net, r, [val |-> NilBytes, err |-> r.ret.err])
       /\ client' = ClientAfterRequest(client, dest)
    /\ UNCHANGED <<dialErr, shares, seen, calls>>

Download(path, net) ==
    /\ ~client.nil
    /\ LET r == sendWebDavRequest(client, store, "GET", path, <<>>, net) IN
       /\ store' = r.store
       /\ last' = Call("Download", path, <<>>, net, r, r.ret)
       /\ client' = ClientAfterRequest(client, path)
    /\ UNCHANGED <<dialErr, shares, seen, calls>>

Exists(path, net) ==
    /\ ~client.nil
    /\ LET r == sendWebDavRequest(client, store, "PROPFIND", path, <<>>, net) IN
       /\ store' = r.store
       /\ last' = Call("Exists", path, <<>>, net, r, [val |-> r.ret.err = NilErr, err |-> NilErr])
       /\ client' = ClientAfterRequest(client, path)
    /\ UNCHANGED <<dialErr, shares, seen, calls>>

----------------------------------------------------------------------------
(* The local file system and UploadDir *)

Unreadable == [ok |-> FALSE, bytes |-> <<>>]
Readable(b) == [ok |-> TRUE, bytes |-> b]

\* The local files, in the lexical order of their names; "bad" is a
\* directory, which ioutil.ReadFile cannot read.
LocalFiles ==
    << [name |-> <<"Folder", "b">>, content |-> Readable(Hello)],
       [name |-> <<"Folder", "bad">>, content |-> Unreadable],
       [name |-> <<"Folder", "c">>, content |-> Readable(PlainXml)],
       [name |-> <<"Other", "b">>, content |-> Readable(BrokenXml)] >>

\* The glob patterns given to UploadDir, and the directories it uploads to.
Patterns ==
    { <<"Folder", "*">>, <<"Folder", "?">>, <<"*", "b">>, <<"Folder", "[">>,
      <<"None", "*">> }
Dests == { <<"a", "">>, <<"%">> }

\* filepath.Match of one path element: "*" matches any element, "?" one of a
\* single character, any other pattern element itself.
SegMatch(p, s) == p = "*" \/ (p = "?" /\ Len(s) = 1) \/ p = s

BadPattern(pattern) == \E i \in 1..Len(pattern) : pattern[i] = "["

Matches(pattern, name) ==
    /\ Len(pattern) = Len(name)
    /\ \A i \in 1..Len(name) : SegMatch(pattern[i], name[i])

\* filepath.Glob: the names that match, in lexical order.
Glob(pattern) ==
    LET IsMatch(f) == Matches(pattern, f.name)
        found == SelectSeq(LocalFiles, IsMatch)
    IN [n \in 1..Len(found) |-> found[n].name]

\* ioutil.ReadFile
ReadFile(name) ==
    LET IsNamed(f) == f.name = name
    IN SelectSeq(LocalFiles, IsNamed)[1].content

\* filepath.Base
Base(name) == name[Len(name)]

\* The number of files UploadDir can come to upload: those matched before
\* the first that cannot be read.
Attempts(src) ==
    IF BadPattern(src) THEN 0
    ELSE LET files == Glob(src)
             bad == { i \in 1..Len(files) : ~ReadFile(files[i]).ok }
         IN IF bad = {} THEN Len(files)
            ELSE (CHOOSE i \in bad : \A j \in bad : i <= j) - 1

FileList(files) == [nil |-> files = <<>>, files |-> files]
NilFiles == [nil |-> TRUE, files |-> <<>>]

\* The loop of UploadDir from file i on; nets[i] is how the i-th file's
\* request is carried.
RECURSIVE UploadLoop(_, _, _, _, _, _, _)
UploadLoop(c, st, files, i, dest, nets, log) ==
    IF i > Len(files)
    THEN [store |-> st, log |-> log, ret |-> [val |-> FileList(files), err |-> NilErr]]
    ELSE
      LET data == ReadFile(files[i]) IN
      IF ~data.ok
      THEN [store |-> st, log |-> log, ret |-> [val |-> NilFiles, err |-> Err("read")]]
      ELSE
        LET r == sendWebDavRequest(c, st, "PUT", Join(dest, <<Base(files[i])>>),
                                   data.bytes, nets[i])
        IN IF r.ret.err # NilErr
           THEN [store |-> r.store, log |-> log \o r.log,
                 ret |-> [val |-> NilFiles, err |-> r.ret.err]]
           ELSE UploadLoop(c, r.store, files, i + 1, dest, nets, log \o r.log)

UploadDir(src, dest, nets) ==
    /\ ~client.nil
    /\ LET r == IF BadPattern(src)
                THEN [store |-> store, log |-> <<>>,
                      ret |-> [val |-> NilFiles, err |-> Err("pattern")]]
                ELSE UploadLoop(client, store, Glob(src), 1, dest, nets, <<>>)
       IN /\ store' = r.store
          /\ last' = Call("UploadDir", dest, src, nets, r, r.ret)
          /\ client' = ClientAfterRequest(client, dest)
    /\ UNCHANGED <<dialErr, shares, seen, calls>>

----------------------------------------------------------------------------
(* The Apps/OCS operations *)

\* <ocs><meta><status/><statuscode>code</statuscode><message/></meta>
\* <data><id>id</id></data></ocs>
OcsBody(code, id) ==
    << S("ocs"), S("meta"), S("status"), T(X), E("status"),
       S("statuscode"), T(code), E("statuscode"),
       S("message"), T(X), E("message"), E("meta"),
       S("data"), S("id"), T(id), E("id"), E("data"), E("ocs") >>

\* The bodies the Apps/OCS endpoint answers with: success, the codes of other
\* outcomes, an envelope without a code, one whose code is not a number, a
\* body that is not XML and an XML body that is no envelope.
AppsBodies ==
    { OcsBody(<<1, 0, 0>>, <<7>>), OcsBody(<<2, 0, 0>>, <<7>>),
      OcsBody(<<9, 9, 7>>, <<>>), OcsBody(<<>>, <<>>), OcsBody(X, <<7>>),
      <<T(X)>>, <<S("html"), T(X), E("html")>> }
HttpStatuses == { 200, 500 }

ZeroResult == [Status |-> <<>>, StatusCode |-> 0, Message |-> <<>>, Id |-> 0]
NilResult == [nil |-> TRUE, result |-> ZeroResult]
StatusErr(code) == [kind |-> "status", code |-> code, exception |-> <<>>, message |-> <<>>]

\* The ShareResult a decoded body gives.
ShareResultOf(val) ==
    [Status |-> val[<<"meta", "status">>],
     StatusCode |-> ParseUint(val[<<"meta", "statuscode">>]),
     Message |-> val[<<"meta", "message">>],
     Id |-> ParseUint(val[<<"data", "id">>])]

\* fmt.Sprintf("%d", n)
Digit == <<"0", "1", "2", "3", "4", "5", "6", "7", "8", "9">>
RECURSIVE Itoa(_)
Itoa(n) == IF n < 10 THEN Digit[n + 1] ELSE Itoa(n \div 10) \o Digit[(n % 10) + 1]

\* The result sendAppsRequest makes of a body that was read in full.
ClassifyAppsAnyStatus(body) ==
    LET d == Unmarshal(body, "ocs", ShareFields, ShareUints)
        result == ShareResultOf(d.val)
    IN IF d.err THEN [val |-> NilResult, err |-> Err("xml")]
       ELSE [val |-> [nil |-> FALSE, result |-> result], err |-> NilErr]

ClassifyApps(body) ==
    LET d == Unmarshal(body, "ocs", ShareFields, ShareUints)
        result == ShareResultOf(d.val)
    IN IF d.err THEN [val |-> NilResult, err |-> Err("xml")]
       ELSE IF result.StatusCode # 100
       THEN [val |-> NilResult, err |-> StatusErr(result.StatusCode)]
       ELSE [val |-> [nil |-> FALSE, result |-> result], err |-> NilErr]

\* The request sendAppsRequest builds.
AppsRequest(c, request, appsPath, data) ==
    [method |-> request, url |-> ResolveReference(c.Url, appsPath),
     user |-> c.Username, pass |-> c.Password,
     headers |-> { <<"OCS-APIRequest", "true">>,
                   <<"Content-Type", "application/x-www-form-urlencoded">> },
     body |-> data]

\* sendAppsRequest: the HTTP exchanges made and the result returned; the
\* endpoint answers with reply.
sendAppsRequest(c, request, path, data, net, reply) ==
    LET appsPath == Join(AppsPrefix, path) IN
    IF ~UrlParseOk(appsPath)
    THEN [log |-> <<>>, ret |-> [val |-> NilResult, err |-> Err("url")]]
    ELSE
      LET req == AppsRequest(c, request, appsPath, data) IN
      IF net = "down"
      THEN [log |-> <<[req |-> req, resp |-> NoResp]>>,
            ret |-> [val |-> NilResult, err |-> Err("transport")]]
      ELSE IF net = "cut"
      THEN [log |-> <<[req |-> req, resp |-> reply]>>,
            ret |-> [val |-> NilResult, err |-> Err("transport")]]
      ELSE [log |-> <<[req |-> req, resp |-> reply]>>, ret |-> ClassifyApps(reply.body)]

MountPoints == { "GroupFolder" }
Groups == { "admin", "%" }
FolderIds == { 12 }
Permissions == { 31 }

CreateGroupFolder(mountPoint, net, reply) ==
    /\ ~client.nil
    /\ LET path == <<"groupfolders", "folders">>
           r == sendAppsRequest(client, "POST", path, <<"mountpoint", mountPoint>>,
                                net, reply)
       IN /\ last' = Call("CreateGroupFolder", path, <<"mountpoint", mountPoint>>, net, r, r.ret)
          /\ client' = ClientAfterRequest(client, path)
    /\ UNCHANGED <<dialErr, store, shares, seen, calls>>

AddGroupToGroupFolder(group, folderId, net, reply) ==
    /\ ~client.nil
    /\ LET path == <<"groupfolders", "folders", Itoa(folderId), "groups">>
           r == sendAppsRequest(client, "POST", path, <<"group", group>>, net, reply)
       IN /\ last' = Call("AddGroupToGroupFolder", path, <<"group", group>>, net, r, r.ret)
          /\ client' = ClientAfterRequest(client, path)
    /\ UNCHANGED <<dialErr, store, shares, seen, calls>>

SetGroupPermissionsForGroupFolder(permissions, group, folderId, net, reply) ==
    /\ ~client.nil
    /\ LET path == <<"apps", "groupfolders", "folders", Itoa(folderId), "groups", group>>
           r == sendAppsRequest(client, "POST", path,
                                <<"permissions", Itoa(permissions)>>, net, reply)
       IN /\ last' = Call("SetGroupPermissionsForGroupFolder", path,
                          <<"permissions", Itoa(permissions)>>, net, r, r.ret)
          /\ client' = ClientAfterRequest(client, path)
    /\ UNCHANGED <<dialErr, store, shares, seen, calls>>

\* How an Apps/OCS request is carried and answered: the connection fails
\* before the endpoint sees it, or while the body is read, or the endpoint
\* answers with any status and body.
Carried(net, reply) == [net |-> net, reply |-> reply]
AppsOutcomes ==
    { Carried("down", NoResp), Carried("cut", [status |-> 200, body |-> <<>>]) }
      \cup { Carried("ok", r) : r \in [status : HttpStatuses, body : AppsBodies] }

----------------------------------------------------------------------------
(* The share operations CreateFileDropShare, GetShare and DeleteShare.      *)
(* Their code is not among the sources (the tests call them); they are     *)
(* modelled from the specification, at the level of the decoded result.    *)

MaxShares == 2
ShareIds == 1..MaxShares
SharePaths == { <<"a">>, <<"a", "b">> }
ShareNets == { "ok", "down", "cut" }

NoShareResult == [StatusCode |-> 0, Id |-> 0, Elements |-> <<>>]
ShareReply(st, code, id, elements) ==
    [shares |-> st, result |-> [StatusCode |-> code, Id |-> id, Elements |-> elements]]

\* The ids of a set of shares, in increasing order.
RECURSIVE IdsInOrder(_)
IdsInOrder(ids) ==
    IF ids = {} THEN <<>>
    ELSE LET m == CHOOSE i \in ids : \A j \in ids : i <= j
         IN <<m>> \o IdsInOrder(ids \ {m})

SharesOf(sh, key) == { x.id : x \in { y \in sh : y.key = key } }

\* The server's handling of a share request.
ServeCreateShare(sh, st, key) ==
    IF Lookup(st, key).kind = "absent" THEN ShareReply(sh, 404, 0, <<>>)
    ELSE LET free == ShareIds \ { x.id : x \in sh }
             id == CHOOSE i \in free : \A j \in free : i <= j
         IN ShareReply(sh \cup {[id |-> id, key |-> key]}, 200, id, <<>>)

ServeGetShare(sh, st, key) ==
    IF Lookup(st, key).kind = "absent" THEN ShareReply(sh, 404, 0, <<>>)
    ELSE ShareReply(sh, 100, 0, IdsInOrder(SharesOf(sh, key)))

ServeDeleteShareKeeps(sh, id) ==
    IF id \notin { x.id : x \in sh } THEN ShareReply(sh, 404, 0, <<>>)
    ELSE ShareReply(sh, 100, 0, <<>>)

ServeDeleteShare(sh, id) ==
    IF id \notin { x.id : x \in sh } THEN ShareReply(sh, 404, 0, <<>>)
    ELSE ShareReply({ x \in sh : x.id # id }, 100, 0, <<>>)

\* The result of a share request from the server's reply: a status code
\* other than 100 and 200 is an error.
sendShareRequest(sh, sv, net) ==
    IF net = "down"
    THEN [shares |-> sh, ret |-> [val |-> [nil |-> TRUE, result |-> NoShareResult],
                                  err |-> Err("transport")]]
    ELSE IF net = "cut"
    THEN [shares |-> sv.shares, ret |-> [val |-> [nil |-> TRUE, result |-> NoShareResult],
                                         err |-> Err("transport")]]
    ELSE IF sv.result.StatusCode \notin {100, 200}
    THEN [shares |-> sv.shares, ret |-> [val |-> [nil |-> TRUE, result |-> NoShareResult],
                                         err |-> StatusErr(sv.result.StatusCode)]]
    ELSE [shares |-> sv.shares, ret |-> [val |-> [nil |-> FALSE, result |-> sv.result],
                                         err |-> NilErr]]

ShareCall(op, path, pre, net, ret) ==
    [op |-> op, path |-> path, data |-> pre, net |-> net, log |-> <<>>, ret |-> ret]

\* What the caller has seen of the shares: fresh, the paths for which a share
\* was created with none deleted since; key, the path last listed; known,
\* no share was created for it since; left, the listed shares not yet
\* deleted; some, one of the listed shares was deleted.
Unseen == [fresh |-> {}, key |-> <<>>, known |-> FALSE, left |-> {}, some |-> FALSE]

\* What was seen of one path before a call.
SeenOf(key) ==
    [fresh |-> key \in seen.fresh, known |-> seen.known /\ seen.key = key,
     left |-> seen.left, some |-> seen.some]

CreateFileDropShare(path, net) ==
    /\ ~client.nil
    /\ Cardinality(shares) < MaxShares
    /\ LET key == Join(<<>>, path)
           r == sendShareRequest(shares, ServeCreateShare(shares, store, key), net)
       IN /\ shares' = r.shares
          /\ seen' = [seen EXCEPT
                        !.fresh = IF r.ret.err = NilErr THEN @ \cup {key} ELSE @,
                        !.known = @ /\ (seen.key # key \/ r.shares = shares)]
          /\ last' = ShareCall("CreateFileDropShare", path, SeenOf(key), net, r.ret)
    /\ UNCHANGED <<client, dialErr, store, calls>>

GetShare(path, net) ==
    /\ ~client.nil
    /\ LET key == Join(<<>>, path)
           r == sendShareRequest(shares, ServeGetShare(shares, store, key), net)
       IN /\ shares' = r.shares
          /\ seen' = IF r.ret.err # NilErr THEN seen
                     ELSE [fresh |-> seen.fresh, key |-> key, known |-> TRUE,
                           left |-> { r.ret.val.result.Elements[i] :
                                      i \in 1..Len(r.ret.val.result.Elements) },
                           some |-> FALSE]
          /\ last' = ShareCall("GetShare", path, SeenOf(key), net, r.ret)
    /\ UNCHANGED <<client, dialErr, store, calls>>

DeleteShare(shareId, net) ==
    /\ ~client.nil
    /\ LET r == sendShareRequest(shares, ServeDeleteShare(shares, shareId), net)
       IN /\ shares' = r.shares
          /\ seen' = [seen EXCEPT
                        !.fresh = IF r.shares = shares THEN @ ELSE {},
                        !.left = IF r.ret.err = NilErr THEN @ \ {shareId} ELSE @,
                        !.some = @ \/ (r.ret.err = NilErr /\ shareId \in seen.left)]
          /\ last' = ShareCall("DeleteShare", <<>>, SeenOf(<<>>), net, r.ret)
    /\ UNCHANGED <<client, dialErr, store, calls>>

----------------------------------------------------------------------------
(* Concurrent callers of one client.  A call is made in steps: the request *)
(* URL is resolved against the client's base URL, the client's credentials *)
(* are attached, and the request is sent and its response classified.      *)
(* Beside each caller runs what its calls would give were it alone: solo   *)
(* is the server's store as its requests alone leave it.                   *)

Goroutines == { 1, 2 }
GoPath(g) == IF g = 1 THEN <<"a">> ELSE <<"b">>
GoOps == { "Mkdir", "Delete", "Upload", "Download", "Exists", "CreateGroupFolder" }
GoNets == { "ok", "down" }
GoPayloads == { Hello, ExceptionXml }

MethodOf(op) ==
    CASE op = "Mkdir" -> "MKCOL"
      [] op = "Delete" -> "DELETE"
      [] op = "Upload" -> "PUT"
      [] op = "Download" -> "GET"
      [] op = "Exists" -> "PROPFIND"
      [] OTHER -> "POST"

\* The path of the request, joined to the prefix of its endpoint.
RefOf(op, path) ==
    IF op = "CreateGroupFolder" THEN Join(AppsPrefix, <<"groupfolders", "folders">>)
    ELSE Join(WebdavPrefix, path)

\* The request a call makes of a client that nothing has changed.
RequestOf(c, op, path, data) ==
    IF op = "CreateGroupFolder" THEN AppsRequest(c, "POST", RefOf(op, path), data)
    ELSE WebDavRequest(c, MethodOf(op), RefOf(op, path), data)

NoUrl == [host |-> "", path |-> <<>>]
NoReq == [method |-> "", url |-> NoUrl, user |-> "", pass |-> "", headers |-> {},
          body |-> <<>>]
NoRet == [val |-> NilBytes, err |-> NilErr]
Idle(st) ==
    [pc |-> "idle", op |-> "none", data |-> <<>>, req |-> NoReq, ret |-> NoRet,
     alone |-> NoRet, solo |-> st]

GoodHost == <<"http://localhost:18080", "">>
GroupFolderMade == [status |-> 200, body |-> OcsBody(<<1, 0, 0>>, <<7>>)]

Start(g, op, data) ==
    /\ calls[g].pc = "idle"
    /\ calls' = [calls EXCEPT ![g] =
                   [@ EXCEPT !.pc = "url", !.op = op, !.data = data, !.req = NoReq]]
    /\ UNCHANGED <<client, dialErr, store, shares, seen, last>>

Resolve(g) ==
    /\ calls[g].pc = "url"
    /\ LET ref == RefOf(calls[g].op, GoPath(g)) IN
       /\ calls' = [calls EXCEPT ![g] =
                      [@ EXCEPT !.pc = "auth",
                                !.req = [NoReq EXCEPT !.url = ResolveReference(client.Url, ref)]]]
       /\ client' = ClientAfterRequest(client, ref)
    /\ UNCHANGED <<dialErr, store, shares, seen, last>>

SetBasicAuth(g) ==
    /\ calls[g].pc = "auth"
    /\ calls' = [calls EXCEPT ![g] =
                   [@ EXCEPT !.pc = "do",
                             !.req = [RequestOf(client, calls[g].op, GoPath(g), calls[g].data)
                                        EXCEPT !.url = calls[g].req.url]]]
    /\ UNCHANGED <<client, dialErr, store, shares, seen, last>>

\* The result and the store after a request is sent over net to a server
\* whose store is st.
Outcome(st, op, req, net) ==
    IF op = "CreateGroupFolder"
    THEN [store |-> st,
          ret |-> IF net = "down" THEN [val |-> NilResult, err |-> Err("transport")]
                  ELSE ClassifyApps(GroupFolderMade.body)]
    ELSE LET d == Do(st, req, net) IN
         [store |-> d.store,
          ret |-> IF d.ok THEN ClassifyBody(d.body)
                  ELSE [val |-> NilBytes, err |-> Err("transport")]]

Finish(g, net) ==
    /\ calls[g].pc = "do"
    /\ LET c == calls[g]
           r == Outcome(store, c.op, c.req, net)
           a == Outcome(c.solo, c.op,
                        RequestOf(NewClient(GoodHost, "admin", "password"),
                                  c.op, GoPath(g), c.data),
                        net)
       IN /\ store' = r.store
          /\ calls' = [calls EXCEPT ![g] =
                         [@ EXCEPT !.pc = "idle", !.ret = r.ret, !.alone = a.ret,
                                   !.solo = a.store]]
    /\ UNCHANGED <<client, dialErr, shares, seen, last>>

----------------------------------------------------------------------------
(* The specification *)

Init ==
    /\ client = NoClient
    /\ dialErr = NilErr
    /\ store = [k \in Keys |-> Absent]
    /\ shares = {}
    /\ seen = Unseen
    /\ calls = [g \in Goroutines |-> Idle([k \in Keys |-> Absent])]
    /\ last = [op |-> "none", path |-> <<>>, data |-> <<>>, net |-> "", log |-> <<>>,
               ret |-> [val |-> NilBytes, err |-> NilErr]]

Next ==
    \/ \E host \in Hosts : Dial(host)
    \/ \E path \in Paths, net \in Nets : Mkdir(path, net)
    \/ \E path \in Paths, net \in Nets : Delete(path, net)
    \/ \E src \in Payloads, dest \in Paths, net \in Nets : Upload(src, dest, net)
    \/ \E path \in Paths, net \in Nets : Download(path, net)
    \/ \E path \in Paths, net \in Nets : Exists(path, net)
    \/ \E src \in Patterns, dest \in Dests :
         \E nets \in [1..Attempts(src) -> Nets] :
            UploadDir(src, dest, nets)
    \/ \E mountPoint \in MountPoints, o \in AppsOutcomes :
         CreateGroupFolder(mountPoint, o.net, o.reply)
    \/ \E group \in Groups, folderId \in FolderIds, o \in AppsOutcomes :
         AddGroupToGroupFolder(group, folderId, o.net, o.reply)
    \/ \E permissions \in Permissions, group \in Groups, folderId \in FolderIds,
          o \in AppsOutcomes :
         SetGroupPermissionsForGroupFolder(permissions, group, folderId, o.net, o.reply)

Spec == Init /\ [][Next]_vars

\* The share operations, on directories made with Mkdir.
NextShare ==
    \/ \E host \in Hosts : Dial(host)
    \/ \E path \in SharePaths : Mkdir(path, "ok")
    \/ \E path \in SharePaths, net \in ShareNets : CreateFileDropShare(path, net)
    \/ \E path \in SharePaths, net \in ShareNets : GetShare(path, net)
    \/ \E shareId \in ShareIds, net \in ShareNets : DeleteShare(shareId, net)

SpecShare == Init /\ [][NextShare]_vars

\* Two callers of one client that Dial has made.
InitConc ==
    /\ client = NewClient(GoodHost, "admin", "password")
    /\ dialErr = NilErr
    /\ store = [k \in Keys |-> Absent]
    /\ shares = {}
    /\ seen = Unseen
    /\ last = [op |-> "none", path |-> <<>>, data |-> <<>>, net |-> "", log |-> <<>>,
               ret |-> [val |-> NilBytes, err |-> NilErr]]
    /\ calls = [g \in Goroutines |-> Idle([k \in Keys |-> Absent])]

NextConc ==
    \/ \E g \in Goroutines, op \in GoOps \ {"Upload"} : Start(g, op, <<>>)
    \/ \E g \in Goroutines, data \in GoPayloads : Start(g, "Upload", data)
    \/ \E g \in Goroutines : Resolve(g)
    \/ \E g \in Goroutines : SetBasicAuth(g)
    \/ \E g \in Goroutines, net \in GoNets : Finish(g, net)

SpecConc == InitConc /\ [][NextConc]_vars

----------------------------------------------------------------------------
(* Properties *)

WebDavOps == { "Mkdir", "Delete", "Upload", "Download", "Exists" }
AppsOps == { "CreateGroupFolder", "AddGroupToGroupFolder",
             "SetGroupPermissionsForGroupFolder" }

\* A segment with an invalid percent escape.
BadEscape(segs) == \E i \in 1..Len(segs) : segs[i] = "%"

\* The resource a caller's path names.
KeyOf(path) == SelectSeq(path, NotEmptySeg)

\* The Error a body decodes to, when it begins with '<' and decodes.
DecodesToException(body) ==
    /\ Len(body) > 0
    /\ body[1].k # "text"
    /\ ~Unmarshal(body, "", ErrorFields, {}).err
    /\ Unmarshal(body, "", ErrorFields, {}).val[<<"exception">>] # <<>>

\* C1: a Download of a path at which the server holds a file (the bytes some
\* Upload stored), answered by the server with those bytes, returns exactly
\* those bytes and a nil error, whatever the bytes are.
C1_RoundTrip ==
    (/\ last.op = "Download"
     /\ last.net = "ok"
     /\ ~BadEscape(last.path)
     /\ Lookup(store, KeyOf(last.path)).kind = "file")
    => last.ret = [val |-> Bytes(Lookup(store, KeyOf(last.path)).data), err |-> NilErr]

\* C2: Exists(p), answered by the server, is true when p is on the server and
\* false when it is not.
C2_ExistsTellsPresence ==
    (last.op = "Exists" /\ last.net = "ok" /\ ~BadEscape(last.path))
    => (last.ret.val <=> Lookup(store, KeyOf(last.path)).kind # "absent")

\* C3: a Mkdir, Delete, Upload or Download whose response body begins with
\* '<' and decodes to an Error with a non-empty exception returns a non-nil
\* error that carries the exception and the message.
C3_ExceptionIsAnError ==
    (/\ last.op \in { "Mkdir", "Delete", "Upload", "Download" }
     /\ last.net \in { "ok", "refuse" }
     /\ Len(last.log) = 1
     /\ DecodesToException(last.log[1].resp.body))
    => LET error == Unmarshal(last.log[1].resp.body, "", ErrorFields, {}).val IN
       /\ last.ret.err # NilErr
       /\ last.ret.err.exception = error[<<"exception">>]
       /\ last.ret.err.message = error[<<"message">>]

\* C4: an Apps/OCS call returns a result only with a nil error and a status
\* code of 100; a body that decodes to a status code other than 100, under
\* any HTTP status, gives a nil result and an error with that code.
C4_AppsStatusCode ==
    last.op \in AppsOps =>
      /\ ~last.ret.val.nil =>
           (last.ret.err = NilErr /\ last.ret.val.result.StatusCode = 100)
      /\ (last.net = "ok" /\ Len(last.log) = 1) =>
           LET d == Unmarshal(last.log[1].resp.body, "ocs", ShareFields, ShareUints)
               code == ParseUint(d.val[<<"meta", "statuscode">>])
           IN (~d.err /\ code # 100) =>
                (last.ret.val.nil /\ last.ret.err = StatusErr(code))

C4_Witness ==
    /\ last.op = "SetGroupPermissionsForGroupFolder"
    /\ last.net = "ok"
    /\ Len(last.log) = 1
    /\ last.log[1].resp.status = 200
    /\ last.ret.val.nil
    /\ last.ret.err = StatusErr(997)

\* C5: an UploadDir that succeeds returns the files its pattern matches, and
\* a Download of each at the destination then returns the file's bytes.
C5_UploadDirRetrievable ==
    (last.op = "UploadDir" /\ last.ret.err = NilErr) =>
      /\ last.ret.val.files = Glob(last.data)
      /\ \A i \in 1..Len(last.ret.val.files) :
           LET f == last.ret.val.files[i] IN
           sendWebDavRequest(client, store, "GET", Join(last.path, <<Base(f)>>),
                             <<>>, "ok").ret
             = [val |-> Bytes(ReadFile(f).bytes), err |-> NilErr]

\* An upload the server did not carry out.
UploadFailed(x) == x.resp.status = 0 \/ x.resp.status >= 400

\* C6: UploadDir stops at the first file whose read or upload fails: a failed
\* upload is the last request made and the call returns a nil list and an
\* error; no DELETE is sent, and a call that returns no error uploaded every
\* matched file, in order.
C6_AbortsOnFirstFailure ==
    last.op = "UploadDir" =>
      /\ \A i \in 1..Len(last.log) :
           /\ last.log[i].req.method = "PUT"
           /\ UploadFailed(last.log[i]) =>
                (i = Len(last.log) /\ last.ret.val.nil /\ last.ret.err # NilErr)
      /\ last.ret.err = NilErr => Len(last.log) = Len(Glob(last.data))

\* C9, in every execution: every call of a single-request operation sends exactly one
\* HTTP request.
C9_ExactlyOneRequest ==
    last.op \in WebDavOps \cup AppsOps => Len(last.log) = 1

\* C9, by whether the path parses: a call sends one request when the joined path parses as a
\* URL reference and none when it does not.
C9_OneRequestIfPathParses ==
    last.op \in WebDavOps \cup AppsOps =>
      Len(last.log) = (IF BadEscape(last.path) THEN 0 ELSE 1)

C9_Witness ==
    /\ last.op = "Upload"
    /\ ~BadEscape(last.path)
    /\ last.net = "down"
    /\ Len(last.log) = 1

\* C10: a path (or an address given to Dial) that does not parse fails the
\* call with the parse error, a nil payload or client, and no request.
C10_ConfigErrorSendsNothing ==
    /\ (last.op \in WebDavOps \cup AppsOps \cup {"UploadDir"} /\ BadEscape(last.path))
         => last.log = <<>>
    /\ (last.op \in WebDavOps \ {"Exists"} /\ BadEscape(last.path))
         => last.ret = [val |-> NilBytes, err |-> Err("url")]
    /\ (last.op = "Exists" /\ BadEscape(last.path)) => last.ret.val = FALSE
    /\ (last.op \in AppsOps /\ BadEscape(last.path))
         => last.ret = [val |-> NilResult, err |-> Err("url")]
    /\ (last.op = "Dial" /\ BadEscape(last.path))
         => (client.nil /\ dialErr = Err("url") /\ last.ret.err = Err("url")
             /\ last.log = <<>>)

C10_Witness ==
    /\ last.op = "Download"
    /\ BadEscape(last.path)
    /\ last.log = <<>>
    /\ last.ret.err = Err("url")

\* C7: a GetShare of a path after a share was created for it returns a
\* non-empty element list, and after DeleteShare was called on every element
\* a GetShare returned it returns an empty one.
C7_SharesListedUntilDeleted ==
    (last.op = "GetShare" /\ last.ret.err = NilErr) =>
      /\ last.data.fresh => last.ret.val.result.Elements # <<>>
      /\ (last.data.known /\ last.data.left = {}) => last.ret.val.result.Elements = <<>>

C7_Witness ==
    /\ last.op = "GetShare"
    /\ last.ret.err = NilErr
    /\ last.data.known
    /\ last.data.left = {}
    /\ last.data.some
    /\ last.ret.val.result.Elements = <<>>

\* C8: no call changes the client, and under any interleaving of the steps
\* of calls on independent paths every call sends the request, and returns
\* the result, that it would were it the only caller.
C8_CallsDoNotInterfere ==
    /\ client = NewClient(GoodHost, "admin", "password")
    /\ \A g \in Goroutines :
         /\ calls[g].pc \in {"do", "idle"} /\ calls[g].op # "none" =>
              calls[g].req = RequestOf(NewClient(GoodHost, "admin", "password"),
                                       calls[g].op, GoPath(g), calls[g].data)
         /\ calls[g].pc = "idle" => calls[g].ret = calls[g].alone

C8_Witness ==
    /\ calls[1].pc = "do"
    /\ calls[1].op = "Download"
    /\ calls[2].pc = "idle"
    /\ calls[2].op = "Upload"
    /\ calls[2].ret.err = NilErr
    /\ store[<<"a">>].kind = "file"
    /\ store[<<"b">>].kind = "file"

====
